---- MODULE Spec2Model ----
(***************************************************************************)
(* A model of kube_util.go: createPod, containerToAttachTo, attach /        *)
(* startStream, waitPod and the stopChan close-once signal.                 *)
(*                                                                          *)
(* Each function of the file is a small state machine over its own group   *)
(* of variables and has its own specification:                              *)
(*   SpecCreate   createPod                                                 *)
(*   SpecLookup   containerToAttachTo                                       *)
(*   SpecAttach   attach, startStream, getStreamOptions                     *)
(*   SpecWait     waitPod with the informer it starts (SpecWaitFair adds    *)
(*                the fairness of the informer's goroutines)                *)
(*   SpecOnce     stopChan.closeOnce called from several goroutines         *)
(***************************************************************************)
EXTENDS Integers, Sequences, FiniteSets, TLC

VARIABLES
  \* createPod
  cfg, command, args, cpc, env, ci, submitted, cret,
  \* containerToAttachTo
  container, pod, lpc, lret,
  \* attach / startStream
  apc, attachOptions, req, streamOptions, executor, stream, aret,
  \* waitPod, the informer and the stop channel
  cluster, wpc, stop, queue, batch, store, reflector, queueClosed, cur,
  \* goroutines inside closeOnce
  gpc, calls, closes, panicked

createVars == <<cfg, command, args, cpc, env, ci, submitted, cret>>
lookupVars == <<container, pod, lpc, lret>>
attachVars == <<apc, attachOptions, req, streamOptions, executor, stream, aret>>
waitVars   == <<cluster, wpc, queue, batch, store, reflector, queueClosed, cur>>
onceVars   == <<stop, gpc, calls, closes, panicked>>
vars == <<createVars, lookupVars, attachVars, waitVars, onceVars>>

\* What the actions of one function leave alone.
otherThanCreate == <<lookupVars, attachVars, waitVars, onceVars>>
otherThanLookup == <<createVars, attachVars, waitVars, onceVars>>
otherThanAttach == <<createVars, container, lpc, lret, waitVars, onceVars>>
otherThanWait   == <<createVars, container, lpc, lret, attachVars>>
otherThanOnce   == <<createVars, lookupVars, attachVars, waitVars>>

\* ------------------------------------------------------------------ bounds
MaxSecrets    == 2
MaxContainers == 2
MaxQueue      == 2
NumCallers    == 3
MaxCalls      == 2

\* Sequences over S of length at most n.
SeqUpTo(S, n) == UNION {[1..k -> S] : k \in 0..n}

None == "none"

\* A nil pointer or a value not yet assigned, where the value is a struct.
Nil == [nil |-> TRUE]

\* ============================================================= createPod
Names      == {"a", "b"}
Namespaces == {"default", "dev"}
Images     == {"busybox", "alpine"}
SecretVals == [EnvVarName : {"E1", "E2"}, SecretName : {"s1"}, SecretKey : {"k1", "k2"}]
Commands   == {<<>>, <<"sh">>}
Args       == {<<>>, <<"-c">>}

boolPtr(b) == b

EnvVarSwapped(s) ==
  [Name |-> s.EnvVarName, SecretName |-> s.SecretKey, SecretKey |-> s.SecretName]

\* The v1.EnvVar built for one entry of cfg.Secrets.
EnvVarFromSecret(s) ==
  [Name |-> s.EnvVarName, SecretName |-> s.SecretName, SecretKey |-> s.SecretKey]

\* The v1.Pod literal handed to podsClient.Create.
NewPod(c, cmd, as, e) ==
  [Name |-> c.Name,
   Containers |-> << [TTY |-> FALSE, Stdin |-> TRUE, Name |-> c.Name,
                      Image |-> c.Image, Command |-> cmd, Args |-> as,
                      Privileged |-> boolPtr(FALSE),
                      ImagePullPolicy |-> "Always", Env |-> e] >>,
   RestartPolicy |-> "OnFailure"]

InitCreate ==
  /\ cfg \in [Name : Names, Namespace : Namespaces, Image : Images,
              Secrets : SeqUpTo(SecretVals, MaxSecrets)]
  /\ command \in Commands
  /\ args \in Args
  /\ cpc = "start"
  /\ env = <<>>
  /\ ci = 1
  /\ submitted = Nil
  /\ cret = None

IdleCreate ==
  /\ cfg = None /\ command = <<>> /\ args = <<>> /\ cpc = "idle"
  /\ env = <<>> /\ ci = 1 /\ submitted = Nil /\ cret = None

\* getKubeClient fails: log.Fatalf ends the process.
createPodFatal ==
  /\ cpc = "start"
  /\ cpc' = "fatal"
  /\ UNCHANGED <<cfg, command, args, env, ci, submitted, cret>>
  /\ UNCHANGED otherThanCreate

\* getKubeClient succeeds; env := []v1.EnvVar{}.
createPodGetClient ==
  /\ cpc = "start"
  /\ cpc' = "env"
  /\ env' = <<>>
  /\ ci' = 1
  /\ UNCHANGED <<cfg, command, args, submitted, cret>>
  /\ UNCHANGED otherThanCreate

\* One iteration of `for _, s := range cfg.Secrets`.
createPodEnvLoop ==
  /\ cpc = "env"
  /\ ci <= Len(cfg.Secrets)
  /\ env' = Append(env, EnvVarFromSecret(cfg.Secrets[ci]))
  /\ ci' = ci + 1
  /\ UNCHANGED <<cfg, command, args, cpc, submitted, cret>>
  /\ UNCHANGED otherThanCreate

\* podsClient.Create(...) in namespace cfg.Namespace; the API answers with
\* the stored pod or with an error.
createPodSubmit ==
  /\ cpc = "env"
  /\ ci > Len(cfg.Secrets)
  /\ submitted' = [Namespace |-> cfg.Namespace, Pod |-> NewPod(cfg, command, args, env)]
  /\ \E ok \in BOOLEAN : cret' = IF ok THEN "pod" ELSE "error"
  /\ cpc' = "done"
  /\ UNCHANGED <<cfg, command, args, env, ci>>
  /\ UNCHANGED otherThanCreate

createPod == createPodFatal \/ createPodGetClient \/ createPodEnvLoop \/ createPodSubmit

\* ================================================== containerToAttachTo
ContainerNames == {"a", "b"}
ContainerVals  == [Name : ContainerNames, Image : {"x", "y"}]
\* The container argument: empty, the name of some container, or a name no
\* container has.
ContainerArgs  == {""} \cup ContainerNames \cup {"c"}

RECURSIVE FirstIndex(_, _, _)
\* `for i := range list { if list[i].Name == name { return i } }`, from
\* index i on; 0 when the loop ends without a match.
FirstIndex(list, name, i) ==
  IF i > Len(list) THEN 0
  ELSE IF list[i].Name = name THEN i
  ELSE FirstIndex(list, name, i + 1)

Ref(list, i) == [kind |-> "ok", list |-> list, index |-> i]
NotFound(name) == [kind |-> "err", msg |-> "container not found", arg |-> name]
\* pod.Spec.Containers[0] on an empty slice: index out of range.
Panic == [kind |-> "panic"]

containerToAttachToInitFirst(name, p) ==
  IF Len(name) > 0
    THEN IF FirstIndex(p.InitContainers, name, 1) # 0
           THEN Ref("InitContainers", FirstIndex(p.InitContainers, name, 1))
         ELSE IF FirstIndex(p.Containers, name, 1) # 0
           THEN Ref("Containers", FirstIndex(p.Containers, name, 1))
         ELSE NotFound(name)
    ELSE IF Len(p.Containers) >= 1 THEN Ref("Containers", 1) ELSE Panic

containerToAttachToLastDefault(name, p) ==
  IF Len(name) > 0
    THEN IF FirstIndex(p.Containers, name, 1) # 0
           THEN Ref("Containers", FirstIndex(p.Containers, name, 1))
         ELSE IF FirstIndex(p.InitContainers, name, 1) # 0
           THEN Ref("InitContainers", FirstIndex(p.InitContainers, name, 1))
         ELSE NotFound(name)
    ELSE IF Len(p.Containers) >= 1 THEN Ref("Containers", Len(p.Containers)) ELSE Panic

\* The value containerToAttachTo returns: a reference into one of the pod's
\* two lists and a nil error, a nil reference and an error, or a panic.
containerToAttachTo(name, p) ==
  IF Len(name) > 0
    THEN IF FirstIndex(p.Containers, name, 1) # 0
           THEN Ref("Containers", FirstIndex(p.Containers, name, 1))
         ELSE IF FirstIndex(p.InitContainers, name, 1) # 0
           THEN Ref("InitContainers", FirstIndex(p.InitContainers, name, 1))
         ELSE NotFound(name)
    ELSE IF Len(p.Containers) >= 1 THEN Ref("Containers", 1) ELSE Panic

\* The container a reference points at.
Deref(p, r) == IF r.list = "Containers" THEN p.Containers[r.index]
               ELSE p.InitContainers[r.index]

InitLookup ==
  /\ container \in ContainerArgs
  /\ pod \in [Name : {"a"}, Namespace : {"default"},
              Containers : SeqUpTo(ContainerVals, MaxContainers),
              InitContainers : SeqUpTo(ContainerVals, MaxContainers)]
  /\ lpc = "call"
  /\ lret = Nil

IdleLookup == container = "" /\ lpc = "idle" /\ lret = Nil

IdlePod == pod = None

\* One call of containerToAttachTo(container, pod).
lookup ==
  /\ lpc = "call"
  /\ lret' = containerToAttachTo(container, pod)
  /\ lpc' = "done"
  /\ UNCHANGED <<container, pod>>
  /\ UNCHANGED otherThanLookup

\* ============================================================== attach
\* getStreamOptions: a stream is passed on only if the attach options ask
\* for it.
getStreamOptions(o) ==
  [Stdin  |-> IF o.Stdin  THEN "stdin"  ELSE None,
   Stdout |-> IF o.Stdout THEN "stdout" ELSE None,
   Stderr |-> IF o.Stderr THEN "stderr" ELSE None]

InitAttach ==
  /\ pod \in [Name : Names, Namespace : Namespaces,
              Containers : SeqUpTo(ContainerVals, MaxContainers),
              InitContainers : {<<>>}]
  /\ attachOptions \in [Container : {""}, Stdin : BOOLEAN, Stdout : BOOLEAN,
                        Stderr : BOOLEAN]
  /\ apc = "start"
  /\ req = Nil
  /\ streamOptions = Nil
  /\ executor = None
  /\ stream = None
  /\ aret = None

IdleAttach ==
  /\ attachOptions = None /\ apc = "idle" /\ req = Nil /\ streamOptions = Nil
  /\ executor = None /\ stream = None /\ aret = None

\* getKubeClient fails: log.Fatalf ends the process.
attachFatal ==
  /\ apc = "start"
  /\ apc' = "fatal"
  /\ UNCHANGED <<pod, attachOptions, req, streamOptions, executor, stream, aret>>
  /\ UNCHANGED otherThanAttach

attachGetClient ==
  /\ apc = "start"
  /\ apc' = "resolve"
  /\ UNCHANGED <<pod, attachOptions, req, streamOptions, executor, stream, aret>>
  /\ UNCHANGED otherThanAttach

\* container, err := containerToAttachTo("", pod), then the request, the
\* attach options and the stream options.
attachResolve ==
  /\ apc = "resolve"
  /\ LET r == containerToAttachTo("", pod) IN
       CASE r.kind = "panic" ->
              /\ apc' = "panic"
              /\ UNCHANGED <<attachOptions, req, streamOptions, aret>>
         [] r.kind = "err" ->
              /\ apc' = "done"
              /\ aret' = "cannot get container to attach to"
              /\ UNCHANGED <<attachOptions, req, streamOptions>>
         [] r.kind = "ok" ->
              /\ apc' = "stream"
              /\ attachOptions' = [attachOptions EXCEPT !.Container = Deref(pod, r).Name]
              /\ req' = [Verb |-> "POST", Resource |-> "pods", Name |-> pod.Name,
                         Namespace |-> pod.Namespace, SubResource |-> "attach",
                         Params |-> attachOptions']
              /\ streamOptions' = getStreamOptions(attachOptions')
              /\ UNCHANGED aret
  /\ UNCHANGED <<pod, executor, stream>>
  /\ UNCHANGED otherThanAttach

startStreamNewExecutorIgnoreErr ==
  /\ apc = "stream"
  /\ \E ok \in BOOLEAN : executor' = IF ok THEN "created" ELSE "failed"
  /\ apc' = "exec"
  /\ UNCHANGED <<pod, attachOptions, req, streamOptions, stream, aret>>
  /\ UNCHANGED otherThanAttach

\* exec, err := remotecommand.NewSPDYExecutor(config, method, url); an error
\* is returned to attach, which wraps it.
startStreamNewExecutor ==
  /\ apc = "stream"
  /\ \E ok \in BOOLEAN :
       IF ok THEN /\ executor' = "created"
                  /\ apc' = "exec"
                  /\ UNCHANGED aret
             ELSE /\ executor' = "failed"
                  /\ apc' = "done"
                  /\ aret' = "error executing"
  /\ UNCHANGED <<pod, attachOptions, req, streamOptions, stream>>
  /\ UNCHANGED otherThanAttach

\* return exec.Stream(streamOptions); attach wraps an error and returns nil
\* otherwise.
startStreamStream ==
  /\ apc = "exec"
  /\ \E ok \in BOOLEAN :
       /\ stream' = IF ok THEN "ok" ELSE "err"
       /\ aret' = IF ok THEN "nil" ELSE "error executing"
  /\ apc' = "done"
  /\ UNCHANGED <<pod, attachOptions, req, streamOptions, executor>>
  /\ UNCHANGED otherThanAttach

startStream == startStreamNewExecutor \/ startStreamStream

attach == attachFatal \/ attachGetClient \/ attachResolve \/ startStream

\* ==================================================== stopChan.closeOnce
\* Goroutine 0 is the informer's processLoop, which runs UpdateFunc; the
\* others are callers of closeOnce on the same stopChan.
Informer   == 0
Callers    == 1..NumCallers
Goroutines == {Informer} \cup Callers

\* Where a goroutine continues when closeOnce returns.
Home(g) == IF g = Informer THEN "process" ELSE "idle"

OnceSteps == {"load", "lock", "check", "close", "store", "unlock"}

\* &stopChan{c: make(chan struct{})}: an open channel, a sync.Once that has
\* not run (done = 0, mutex free).
newStopChan == [closed |-> FALSE, done |-> 0, m |-> {}]

InitOnce ==
  /\ stop = newStopChan
  /\ gpc = [g \in Goroutines |-> "idle"]
  /\ calls = [g \in Goroutines |-> 0]
  /\ closes = 0
  /\ panicked = FALSE

\* A goroutine calls stop.closeOnce().
goCloseOnce(g) ==
  /\ gpc[g] = "idle"
  /\ calls[g] < MaxCalls
  /\ gpc' = [gpc EXCEPT ![g] = "load"]
  /\ calls' = [calls EXCEPT ![g] = @ + 1]
  /\ UNCHANGED <<stop, closes, panicked>>
  /\ UNCHANGED otherThanOnce

\* sync.Once.Do: the atomic load of done; done = 1 returns at once.
closeOnceLoad(g) ==
  /\ gpc[g] = "load"
  /\ gpc' = [gpc EXCEPT ![g] = IF stop.done = 1 THEN Home(g) ELSE "lock"]
  /\ UNCHANGED <<stop, calls, closes, panicked>>
  /\ UNCHANGED otherThanOnce

\* o.m.Lock()
closeOnceLock(g) ==
  /\ gpc[g] = "lock"
  /\ stop.m = {}
  /\ stop' = [stop EXCEPT !.m = {g}]
  /\ gpc' = [gpc EXCEPT ![g] = "check"]
  /\ UNCHANGED <<calls, closes, panicked>>
  /\ UNCHANGED otherThanOnce

closeOnceCheckSkipped(g) ==
  /\ gpc[g] = "check"
  /\ gpc' = [gpc EXCEPT ![g] = "close"]
  /\ UNCHANGED <<stop, calls, closes, panicked>>
  /\ UNCHANGED otherThanOnce

\* if o.done == 0, under the mutex.
closeOnceCheck(g) ==
  /\ gpc[g] = "check"
  /\ gpc' = [gpc EXCEPT ![g] = IF stop.done = 0 THEN "close" ELSE "unlock"]
  /\ UNCHANGED <<stop, calls, closes, panicked>>
  /\ UNCHANGED otherThanOnce

\* close(s.c); closing a closed channel panics.
closeOnceClose(g) ==
  /\ gpc[g] = "close"
  /\ IF stop.closed
       THEN /\ panicked' = TRUE
            /\ gpc' = [gpc EXCEPT ![g] = "panic"]
            /\ UNCHANGED <<stop, closes>>
       ELSE /\ stop' = [stop EXCEPT !.closed = TRUE]
            /\ closes' = closes + 1
            /\ gpc' = [gpc EXCEPT ![g] = "store"]
            /\ UNCHANGED panicked
  /\ UNCHANGED calls
  /\ UNCHANGED otherThanOnce

\* defer atomic.StoreUint32(&o.done, 1)
closeOnceStore(g) ==
  /\ gpc[g] = "store"
  /\ stop' = [stop EXCEPT !.done = 1]
  /\ gpc' = [gpc EXCEPT ![g] = "unlock"]
  /\ UNCHANGED <<calls, closes, panicked>>
  /\ UNCHANGED otherThanOnce

\* defer o.m.Unlock(), and closeOnce returns.
closeOnceUnlock(g) ==
  /\ gpc[g] = "unlock"
  /\ stop' = [stop EXCEPT !.m = {}]
  /\ gpc' = [gpc EXCEPT ![g] = Home(g)]
  /\ UNCHANGED <<calls, closes, panicked>>
  /\ UNCHANGED otherThanOnce

closeOnce(g) ==
  \/ closeOnceLoad(g)
  \/ closeOnceLock(g)
  \/ closeOnceCheck(g)
  \/ closeOnceClose(g)
  \/ closeOnceStore(g)
  \/ closeOnceUnlock(g)

\* ============================================================== waitPod
Absent == "Absent"
Phases == {"Pending", "Running", "Succeeded", "Failed"}

\* The pod phases the kubelet moves a pod through.
PhaseSteps == {<<"Pending", "Running">>, <<"Pending", "Failed">>,
               <<"Running", "Succeeded">>, <<"Running", "Failed">>}

Delta(t, n, ph) == [type |-> t, name |-> n, phase |-> ph]

\* waitPod is still running and its reflector has not ended: the model
\* follows the cluster as long as its changes can reach waitPod.
Waiting == wpc \in {"start", "run", "loop"} /\ reflector # "stopped"

HasDelta(q, n) == \E i \in 1..Len(q) : q[i].name = n

InitWait ==
  /\ pod = [Name |-> "a", Namespace |-> "default",
            Containers |-> <<[Name |-> "a", Image |-> "x"]>>,
            InitContainers |-> <<>>]
  /\ cluster \in [Names -> Phases \cup {Absent}]
  /\ cluster[pod.Name] # Absent
  /\ \A n \in Names \ {pod.Name} : cluster[n] \in {Absent, "Pending", "Running"}
  /\ wpc = "start"
  /\ queue = <<>>
  /\ batch = <<>>
  /\ store = [n \in Names |-> Absent]
  /\ reflector = "off"
  /\ queueClosed = FALSE
  /\ cur = Nil

IdleWait ==
  /\ cluster = None /\ wpc = "idle" /\ queue = <<>> /\ batch = <<>>
  /\ store = None /\ reflector = "off" /\ queueClosed = FALSE /\ cur = Nil

\* getKubeClient fails: log.Fatalf ends the process.
waitPodFatal ==
  /\ wpc = "start"
  /\ wpc' = "fatal"
  /\ UNCHANGED <<pod, cluster, queue, batch, store, reflector, queueClosed, cur, onceVars>>
  /\ UNCHANGED otherThanWait

\* getKubeClient succeeds; stop := newStopChan(); the list-watch and the
\* informer are built.
waitPodGetClient ==
  /\ wpc = "start"
  /\ wpc' = "run"
  /\ stop' = newStopChan
  /\ UNCHANGED <<pod, cluster, queue, batch, store, reflector, queueClosed, cur,
                 gpc, calls, closes, panicked>>
  /\ UNCHANGED otherThanWait

\* controller.Run(stop.c) starts the reflector and enters processLoop.
controllerRun ==
  /\ wpc = "run"
  /\ wpc' = "loop"
  /\ reflector' = "listing"
  /\ gpc' = [gpc EXCEPT ![Informer] = "pop"]
  /\ UNCHANGED <<pod, cluster, queue, batch, store, queueClosed, cur,
                 stop, calls, closes, panicked>>
  /\ UNCHANGED otherThanWait

\* The pods of the namespace in the order of their keys.
NameOrder == <<"a", "b">>

RECURSIVE ListDeltas(_, _)
\* One Sync delta per pod of the listed namespace, from key i on.
ListDeltas(i, c) ==
  IF i > Len(NameOrder) THEN <<>>
  ELSE (IF c[NameOrder[i]] # Absent
          THEN <<Delta("Sync", NameOrder[i], c[NameOrder[i]])>> ELSE <<>>)
         \o ListDeltas(i + 1, c)

\* The reflector lists the pods of pod.Namespace and starts its watch.
reflectorList ==
  /\ reflector = "listing"
  /\ queue' = queue \o ListDeltas(1, cluster)
  /\ reflector' = "watching"
  /\ UNCHANGED <<pod, cluster, wpc, batch, store, queueClosed, cur, onceVars>>
  /\ UNCHANGED otherThanWait

\* The watch delivers a change of the namespace while the reflector runs.
Notify(t, n, ph) ==
  IF reflector = "watching"
    THEN /\ Len(queue) < MaxQueue
         /\ queue' = Append(queue, Delta(t, n, ph))
    ELSE UNCHANGED queue

\* The cluster moves a pod to its next phase.
podPhase(n) ==
  /\ Waiting
  /\ \E st \in PhaseSteps :
       /\ n # pod.Name => st[2] = "Running"
       /\ cluster[n] = st[1]
       /\ cluster' = [cluster EXCEPT ![n] = st[2]]
       /\ Notify("Updated", n, st[2])
  /\ UNCHANGED <<pod, wpc, batch, store, reflector, queueClosed, cur, onceVars>>
  /\ UNCHANGED otherThanWait

\* The pod's status is updated within its phase.
podTouch(n) ==
  /\ Waiting
  /\ cluster[n] # Absent
  /\ reflector = "watching"
  /\ Notify("Updated", n, cluster[n])
  /\ UNCHANGED <<pod, cluster, wpc, batch, store, reflector, queueClosed, cur, onceVars>>
  /\ UNCHANGED otherThanWait

\* Another pod of the namespace is created.
podCreate(n) ==
  /\ Waiting
  /\ n # pod.Name
  /\ cluster[n] = Absent
  /\ cluster' = [cluster EXCEPT ![n] = "Pending"]
  /\ Notify("Added", n, "Pending")
  /\ UNCHANGED <<pod, wpc, batch, store, reflector, queueClosed, cur, onceVars>>
  /\ UNCHANGED otherThanWait

\* Another pod of the namespace is deleted.
podDelete(n) ==
  /\ Waiting
  /\ n # pod.Name
  /\ cluster[n] # Absent
  /\ cluster' = [cluster EXCEPT ![n] = Absent]
  /\ Notify("Deleted", n, cluster[n])
  /\ UNCHANGED <<pod, wpc, batch, store, reflector, queueClosed, cur, onceVars>>
  /\ UNCHANGED otherThanWait

RECURSIVE SyncDeltas(_, _, _)
\* A resync queues a Sync delta for every pod of the store that has no delta
\* queued, from key i on.
SyncDeltas(i, st, q) ==
  IF i > Len(NameOrder) THEN <<>>
  ELSE (IF st[NameOrder[i]] # Absent /\ ~HasDelta(q, NameOrder[i])
          THEN <<Delta("Sync", NameOrder[i], st[NameOrder[i]])>> ELSE <<>>)
         \o SyncDeltas(i + 1, st, q)

\* The resync period, time.Second*1, has passed.
resync ==
  /\ reflector = "watching"
  /\ queue' = queue \o SyncDeltas(1, store, queue)
  /\ UNCHANGED <<pod, cluster, wpc, batch, store, reflector, queueClosed, cur, onceVars>>
  /\ UNCHANGED otherThanWait

\* processLoop pops the first key of the queue with all its deltas.
pop ==
  /\ gpc[Informer] = "pop"
  /\ queue # <<>>
  /\ batch' = SelectSeq(queue, LAMBDA d : d.name = queue[1].name)
  /\ queue' = SelectSeq(queue, LAMBDA d : d.name # queue[1].name)
  /\ gpc' = [gpc EXCEPT ![Informer] = "process"]
  /\ UNCHANGED <<pod, cluster, wpc, store, reflector, queueClosed, cur,
                 stop, calls, closes, panicked>>
  /\ UNCHANGED otherThanWait

\* The queue is empty and closed: processLoop ends.
popClosed ==
  /\ gpc[Informer] = "pop"
  /\ queue = <<>>
  /\ queueClosed
  /\ gpc' = [gpc EXCEPT ![Informer] = "exit"]
  /\ UNCHANGED <<pod, cluster, wpc, queue, batch, store, reflector, queueClosed, cur,
                 stop, calls, closes, panicked>>
  /\ UNCHANGED otherThanWait

UpdateFuncAnyPod(newPod) ==
  IF newPod.Phase = "Running" THEN "load" ELSE "process"

\* UpdateFunc(o, n): where the informer goroutine goes next, into closeOnce
\* or back to processLoop.
UpdateFunc(newPod) ==
  IF newPod.Name # pod.Name THEN "process"
  ELSE IF newPod.Phase = "Running" THEN "load"
  ELSE "process"

\* A delta of a pod the store holds: the store is updated and the update
\* handler runs.
processUpdate ==
  /\ gpc[Informer] = "process"
  /\ batch # <<>>
  /\ Head(batch).type # "Deleted"
  /\ store[Head(batch).name] # Absent
  /\ store' = [store EXCEPT ![Head(batch).name] = Head(batch).phase]
  /\ cur' = [Name |-> Head(batch).name, Phase |-> Head(batch).phase]
  /\ gpc' = [gpc EXCEPT ![Informer] = UpdateFunc(cur')]
  /\ batch' = Tail(batch)
  /\ UNCHANGED <<pod, cluster, wpc, queue, reflector, queueClosed,
                 stop, calls, closes, panicked>>
  /\ UNCHANGED otherThanWait

\* A delta of a pod the store does not hold: the pod is added; no add
\* handler is registered.
processAdd ==
  /\ gpc[Informer] = "process"
  /\ batch # <<>>
  /\ Head(batch).type # "Deleted"
  /\ store[Head(batch).name] = Absent
  /\ store' = [store EXCEPT ![Head(batch).name] = Head(batch).phase]
  /\ batch' = Tail(batch)
  /\ UNCHANGED <<pod, cluster, wpc, queue, reflector, queueClosed, cur, onceVars>>
  /\ UNCHANGED otherThanWait

\* A Deleted delta: the pod leaves the store; no delete handler is
\* registered.
processDelete ==
  /\ gpc[Informer] = "process"
  /\ batch # <<>>
  /\ Head(batch).type = "Deleted"
  /\ store' = [store EXCEPT ![Head(batch).name] = Absent]
  /\ batch' = Tail(batch)
  /\ UNCHANGED <<pod, cluster, wpc, queue, reflector, queueClosed, cur, onceVars>>
  /\ UNCHANGED otherThanWait

\* All deltas of the popped key are processed.
processDone ==
  /\ gpc[Informer] = "process"
  /\ batch = <<>>
  /\ gpc' = [gpc EXCEPT ![Informer] = "pop"]
  /\ UNCHANGED <<pod, cluster, wpc, queue, batch, store, reflector, queueClosed, cur,
                 stop, calls, closes, panicked>>
  /\ UNCHANGED otherThanWait

\* controller.Run's goroutine `<-stopCh; Queue.Close()`.
queueClose ==
  /\ stop.closed
  /\ wpc = "loop"
  /\ ~queueClosed
  /\ queueClosed' = TRUE
  /\ UNCHANGED <<pod, cluster, wpc, queue, batch, store, reflector, cur, onceVars>>
  /\ UNCHANGED otherThanWait

\* The reflector sees the stop channel closed and ends.
reflectorStop ==
  /\ stop.closed
  /\ reflector \in {"listing", "watching"}
  /\ reflector' = "stopped"
  /\ UNCHANGED <<pod, cluster, wpc, queue, batch, store, queueClosed, cur, onceVars>>
  /\ UNCHANGED otherThanWait

\* processLoop and the reflector have ended: controller.Run returns, and
\* with it waitPod.
runReturn ==
  /\ wpc = "loop"
  /\ gpc[Informer] = "exit"
  /\ reflector = "stopped"
  /\ wpc' = "returned"
  /\ UNCHANGED <<pod, cluster, queue, batch, store, reflector, queueClosed, cur, onceVars>>
  /\ UNCHANGED otherThanWait

informer ==
  \/ reflectorList \/ resync \/ pop \/ popClosed
  \/ processUpdate \/ processAdd \/ processDelete \/ processDone
  \/ queueClose \/ reflectorStop

kubernetes == \E n \in Names : podPhase(n) \/ podTouch(n) \/ podCreate(n) \/ podDelete(n)

waitPod ==
  \/ waitPodFatal \/ waitPodGetClient \/ controllerRun \/ runReturn
  \/ informer
  \/ closeOnce(Informer)

\* ====================================================== specifications
NextCreate == createPod
NextLookup == lookup
NextAttach == attach
NextWait   == waitPod \/ kubernetes
NextOnce   == \E g \in Callers : goCloseOnce(g) \/ closeOnce(g)

InitSpecCreate == InitCreate /\ IdleLookup /\ IdlePod /\ IdleAttach /\ IdleWait /\ InitOnce
InitSpecLookup == IdleCreate /\ InitLookup /\ IdleAttach /\ IdleWait /\ InitOnce
InitSpecAttach == IdleCreate /\ IdleLookup /\ InitAttach /\ IdleWait /\ InitOnce
InitSpecWait   == IdleCreate /\ IdleLookup /\ IdleAttach /\ InitWait /\ InitOnce
InitSpecOnce   == IdleCreate /\ IdleLookup /\ IdlePod /\ IdleAttach /\ IdleWait /\ InitOnce

SpecCreate == InitSpecCreate /\ [][NextCreate]_vars
SpecLookup == InitSpecLookup /\ [][NextLookup]_vars
SpecAttach == InitSpecAttach /\ [][NextAttach]_vars
SpecWait   == InitSpecWait /\ [][NextWait]_vars
SpecOnce   == InitSpecOnce /\ [][NextOnce]_vars

\* The informer's goroutines and waitPod itself keep running; the cluster
\* owes nothing.
SpecWaitFair ==
  /\ SpecWait
  /\ WF_vars(waitPodFatal \/ waitPodGetClient)
  /\ WF_vars(controllerRun)
  /\ WF_vars(runReturn)
  /\ WF_vars(reflectorList)
  /\ WF_vars(resync)
  /\ WF_vars(pop)
  /\ WF_vars(popClosed)
  /\ WF_vars(processUpdate \/ processAdd \/ processDelete \/ processDone)
  /\ WF_vars(queueClose)
  /\ WF_vars(reflectorStop)
  /\ WF_vars(closeOnce(Informer))

Spec == SpecWait

\* ============================================================== claims

\* ---- C5, under SpecCreate
SubmittedContainer == submitted.Pod.Containers[1]

\* C5: once createPod has called Create, the pod it submitted is in
\* namespace cfg.Namespace, is named cfg.Name and has exactly one container:
\* named like the pod, with image cfg.Image, the command and args passed in,
\* Stdin true, TTY false, Privileged false, and one secret-backed variable per
\* entry of cfg.Secrets, in the same order, each mapping EnvVarName to
\* (SecretName, SecretKey).
C5_SubmittedPod ==
  cpc = "done" =>
    /\ submitted.Namespace = cfg.Namespace
    /\ submitted.Pod.Name = cfg.Name
    /\ Len(submitted.Pod.Containers) = 1
    /\ SubmittedContainer.Name = submitted.Pod.Name
    /\ SubmittedContainer.Image = cfg.Image
    /\ SubmittedContainer.Command = command
    /\ SubmittedContainer.Args = args
    /\ SubmittedContainer.Stdin = TRUE
    /\ SubmittedContainer.TTY = FALSE
    /\ SubmittedContainer.Privileged = FALSE
    /\ Len(SubmittedContainer.Env) = Len(cfg.Secrets)
    /\ \A i \in 1..Len(cfg.Secrets) :
         /\ SubmittedContainer.Env[i].Name = cfg.Secrets[i].EnvVarName
         /\ SubmittedContainer.Env[i].SecretName = cfg.Secrets[i].SecretName
         /\ SubmittedContainer.Env[i].SecretKey = cfg.Secrets[i].SecretKey

\* A pod was submitted for a configuration with two different secrets.
C5_Witness ==
  /\ cpc = "done"
  /\ submitted # Nil
  /\ Len(cfg.Secrets) = 2
  /\ cfg.Secrets[1] # cfg.Secrets[2]
  /\ command # <<>>

\* ---- C3 and C4, under SpecLookup
Matches(list, name) == {i \in 1..Len(list) : list[i].Name = name}

IsFirstMatch(r, which, list, name) ==
  /\ r.kind = "ok"
  /\ r.list = which
  /\ r.index \in Matches(list, name)
  /\ \A j \in Matches(list, name) : r.index <= j

C3_Result ==
  (lpc = "done" /\ container # "") =>
    IF Matches(pod.Containers, container) # {}
      THEN IsFirstMatch(lret, "Containers", pod.Containers, container)
    ELSE IF Matches(pod.InitContainers, container) # {}
      THEN IsFirstMatch(lret, "InitContainers", pod.InitContainers, container)
    ELSE /\ lret.kind = "err"
         /\ lret.msg = "container not found"
         /\ lret.arg = container

\* C3: for a non-empty name, containerToAttachTo returns a reference to the
\* first entry of pod.Spec.Containers with that name; with no such entry, to
\* the first entry of pod.Spec.InitContainers with that name; with neither, a
\* nil container and a "container not found" error. The reference points into
\* the pod's own list, and the pod is never changed.
C3_LinearLookup == []C3_Result /\ [][pod' = pod]_vars

\* The name is that of the second regular container, not of the first, and
\* of an init container as well.
C3_Witness ==
  /\ lpc = "done"
  /\ container # ""
  /\ Cardinality(Matches(pod.Containers, container)) = 1
  /\ Len(pod.Containers) = 2
  /\ pod.Containers[1].Name # container
  /\ Matches(pod.InitContainers, container) # {}
  /\ lret.kind = "ok"

\* C4 as stated: with an empty name, containerToAttachTo returns the pod's
\* first container and a nil error, for every pod.
C4_FirstContainerForEveryPod ==
  (lpc = "done" /\ container = "") =>
    /\ lret.kind = "ok"
    /\ lret.list = "Containers"
    /\ lret.index = 1

\* C4, amended: with an empty name, containerToAttachTo returns the first
\* container and a nil error for every pod that has a container; for a pod
\* without containers it panics and returns nothing.
C4_FirstContainerIfAny ==
  (lpc = "done" /\ container = "") =>
    IF Len(pod.Containers) >= 1
      THEN lret.kind = "ok" /\ lret.list = "Containers" /\ lret.index = 1
      ELSE lret.kind = "panic"

\* An empty name and a pod with two different containers.
C4_Witness ==
  /\ lpc = "done"
  /\ container = ""
  /\ Len(pod.Containers) = 2
  /\ pod.Containers[1] # pod.Containers[2]
  /\ lret.kind = "ok"

\* ---- C7, under SpecAttach
ResolutionFailed == apc = "panic" \/ aret = "cannot get container to attach to"

\* C7: attach returns nil only if the executor was created and Stream ended
\* without error; if creating the executor fails, Stream is never called and
\* attach returns "error executing"; if the container cannot be resolved, no
\* request is built and no stream is started.
C7_AttachErrors ==
  /\ (apc = "done" /\ aret = "nil") => (executor = "created" /\ stream = "ok")
  /\ executor = "failed" => (stream = None /\ apc = "done" /\ aret = "error executing")
  /\ ResolutionFailed => (req = Nil /\ executor = None /\ stream = None /\ aret # "nil")
  /\ stream # None => (executor = "created" /\ req # Nil)

\* attach has returned nil after a stream that ended without error.
C7_Witness ==
  /\ apc = "done"
  /\ aret = "nil"
  /\ executor = "created"
  /\ stream = "ok"
  /\ req.Params.Container = pod.Containers[1].Name

\* ---- C2, under SpecOnce
C2_Closes ==
  /\ closes <= 1
  /\ ~panicked
  /\ stop.closed <=> closes = 1
  /\ \A g \in Callers : (calls[g] > 0 /\ gpc[g] = "idle") => stop.closed

\* C2: however many closeOnce calls are made on one stopChan, one after the
\* other or at once from several goroutines, the channel is closed exactly
\* once, no close of a closed channel is ever executed, every call that has
\* returned leaves the channel closed, and a closed channel stays closed.
C2_CloseOnce == []C2_Closes /\ [][stop.closed => stop.closed']_vars

\* One goroutine has closed the channel and still holds the mutex of the
\* sync.Once, another is waiting for that mutex, and some goroutine is in its
\* second call.
C2_Witness ==
  /\ closes = 1
  /\ stop.closed
  /\ \E g, h \in Callers : g # h /\ gpc[g] = "unlock" /\ gpc[h] = "lock"
  /\ \E k \in Callers : calls[k] >= 2

\* ---- C1 and C6, under SpecWait and SpecWaitFair
RunningUpdate == [Name |-> pod.Name, Phase |-> "Running"]

\* The step in which processLoop hands a delta to UpdateFunc.
UpdateStep ==
  /\ gpc[Informer] = "process"
  /\ batch # <<>>
  /\ batch' = Tail(batch)
  /\ Head(batch).type # "Deleted"
  /\ store[Head(batch).name] # Absent

C1_Open ==
  /\ wpc = "returned" => stop.closed
  /\ gpc[Informer] = "exit" => stop.closed
  /\ queueClosed => stop.closed
  /\ reflector = "stopped" => stop.closed
  /\ gpc[Informer] \in OnceSteps => cur = RunningUpdate
  /\ stop.closed => cur = RunningUpdate \/ stop.done = 1

C1_Steps ==
  /\ (~stop.closed /\ stop.closed') =>
       (gpc[Informer] = "close" /\ cur = RunningUpdate)
  /\ (UpdateStep /\ (Head(batch).name # pod.Name \/ Head(batch).phase # "Running")) =>
       (stop' = stop /\ gpc'[Informer] = "process")

\* C1: the stop channel stays open, processLoop and the reflector keep
\* running and waitPod does not return until UpdateFunc has handled an update
\* whose new object has the created pod's name and phase Running; the channel
\* is closed only inside that handler, and an update of a pod with another
\* name or in another phase neither closes it nor calls closeOnce.
C1_ReturnsOnlyAfterRunningUpdate == []C1_Open /\ [][C1_Steps]_vars

\* waitPod has returned while another pod of the namespace is running too.
C1_Witness ==
  /\ wpc = "returned"
  /\ stop.closed
  /\ closes = 1
  /\ \E n \in Names \ {pod.Name} : store[n] = "Running"

\* C6 as stated: whenever the created pod is in phase Running, waitPod
\* eventually returns (unless getKubeClient failed and ended the process).
C6_RunningLeadsToReturn ==
  (wpc # "fatal" /\ cluster[pod.Name] = "Running") ~> (wpc \in {"returned", "fatal"})

====
